---- MODULE Spec2Model ----
(***************************************************************************)
(* Room state synchronization engine of anonyChat: the useChatRoom hook    *)
(* (src/hooks/useChatRoom.ts and the revision kept in src/unnamed/part_000)*)
(* driven by a transport (Supabase client, or the mock client of           *)
(* src/supabase.ts when no credentials are configured).                    *)
(*                                                                         *)
(* One hook instance is modelled: its three React state collections, the   *)
(* effect activations (one per roomId value, each with its own closure),   *)
(* the hydration queries in flight, the feed channels, and the server      *)
(* tables the connected-mode transport reads and writes.                   *)
(***************************************************************************)
EXTENDS Integers, Sequences, FiniteSets, TLC

\* ------------------------------------------------------------------ bounds
MaxActivations == 3
MaxStale == 1
MaxRows == 2
MaxSynth == 2
MaxClock == 1

\* ------------------------------------------------------- values and inputs
Rooms == {"A", "B"}
TableSet == {"messages", "reactions", "message_reactions"}
Revisions == {"useChatRoom.ts", "part_000"}

\* currentUserIdRef.current (the local handle) and a remote participant
LocalHandle == "H1"
RemoteHandle == "H2"
SystemUser == "SystemMessage"
Null == "null"
\* the currentUserId prop of MessageItem is optional
Undefined == "undefined"

\* arguments of sendMessage(text, options) the callers are drawn from
SendInputs ==
  { [text |-> "hello", mentions |-> <<>>, isHost |-> FALSE, hostName |-> "Host"],
    [text |-> "hi @H2", mentions |-> <<"H2">>, isHost |-> TRUE, hostName |-> "Host"] }

\* the row another participant inserts into the messages table (no mentions)
RemoteMessages ==
  { [text |-> "yo", user_id |-> RemoteHandle, is_host |-> FALSE, host_name |-> Null] }

\* the argument the connected-mode caller is drawn from
WriteInputs ==
  { [text |-> "hi @H2", mentions |-> <<"H2">>, isHost |-> TRUE, hostName |-> "Host"] }

ReactionType == {"like", "idea", "question", "confused"}
ReactInputs == {"like", "idea"}

VARIABLES
  isSupabaseConfigured, \* src/supabase.ts:101
  rev,                  \* which revision of the hook is running
  mounted,              \* the hook instance is attached to a consumer
  roomId,               \* the roomId argument of the last render
  messages,             \* useState<Message[]>
  reactions,            \* useState<Reaction[]>
  messageReactions,     \* useState<MessageReaction[]>
  acts,                 \* effect activations, oldest first; the last is current
  db,                   \* server tables (connected mode), in insertion order
  now,                  \* the last value read from the clock
  synth,                \* ids synthesized locally so far (the next random suffix)
  lastOp,               \* the operation that produced the current state
  storageAvailable,     \* window.localStorage can be obtained
  localStorage,         \* the items of window.localStorage, by key
  memoryStore,          \* src/supabase.ts:27, the tables of the mock client
  chain,                \* the call chain on the mock client in progress
  userId,               \* what the last call of getUserId returned
  newMessage,           \* RoomPage: the value of the textarea, as tokens
  cursor,               \* the textarea's selectionStart
  isComposing,          \* RoomPage: an IME composition is in progress
  selectedMentions,     \* RoomPage: handles picked from the suggestion list
  mentionQuery,         \* RoomPage: what follows the '@' before the cursor
  showMentionList,      \* RoomPage: the suggestion list is open
  location,             \* the state of the location RoomPage was rendered for
  sessionStorage,       \* rooms R with 'allowHomeNavigation:R' set to 'true'
  canNavigateHome       \* RoomPage: the home link is rendered

\* the state of the hook and of the connected-mode transport
hook == <<isSupabaseConfigured, rev, mounted, roomId, messages, reactions,
          messageReactions, acts, db, now, synth, lastOp>>

\* the state of the browser storage and of the mock client
adapter == <<storageAvailable, localStorage, memoryStore, chain, userId>>

\* the message form of RoomPage
composer == <<newMessage, cursor, isComposing, selectedMentions, mentionQuery,
              showMentionList>>

\* what decides whether RoomPage renders the home link
nav == <<location, sessionStorage, canNavigateHome>>

page == <<composer, nav>>

vars == <<hook, adapter, page>>

collections == <<messages, reactions, messageReactions>>

\* ------------------------------------------------------------ JS helpers
\* object spread { ...r, ...s }
Spread(r, s) ==
  [k \in (DOMAIN r) \cup (DOMAIN s) |-> IF k \in DOMAIN s THEN s[k] ELSE r[k]]

\* Array.prototype.some(e => e.id === id)
SomeId(coll, id) == \E i \in 1..Len(coll) : coll[i].id = id

RECURSIVE FilterSeq(_, _)
FilterSeq(s, room) ==
  IF s = <<>> THEN <<>>
  ELSE IF Head(s).room_id = room
       THEN <<Head(s)>> \o FilterSeq(Tail(s), room)
       ELSE FilterSeq(Tail(s), room)

\* insert row r into the timestamp-ordered sequence s after every row whose
\* timestamp is not greater (stable)
RECURSIVE InsertSorted(_, _)
InsertSorted(s, r) ==
  IF s = <<>> THEN <<r>>
  ELSE IF Head(s).timestamp <= r.timestamp
       THEN <<Head(s)>> \o InsertSorted(Tail(s), r)
       ELSE <<r>> \o s

RECURSIVE OrderByTimestamp(_)
OrderByTimestamp(s) ==
  IF s = <<>> THEN <<>>
  ELSE InsertSorted(OrderByTimestamp(SubSeq(s, 1, Len(s) - 1)), s[Len(s)])

\* Query with .order('timestamp', { ascending: false })
QueryNewestFirst(table, room) ==
  LET s == OrderByTimestamp(FilterSeq(db[table], room))
  IN [i \in 1..Len(s) |-> s[Len(s) + 1 - i]]

\* .select('*').eq('room_id', roomId).order('timestamp', { ascending: true })
Query(table, room) == OrderByTimestamp(FilterSeq(db[table], room))

\* ------------------------------------------------------------ activations
NoFeed == [t \in TableSet |-> <<>>]
NoResp == [st |-> "none"]

\* the closure of one run of the effect of useChatRoom for one roomId
NewAct(room, q, subs) ==
  [room |-> room, isMounted |-> TRUE, q |-> q, resp |-> NoResp,
   subs |-> [t \in TableSet |-> subs],
   removeCalls |-> [t \in TableSet |-> 0], feed |-> NoFeed]

\* the record of the last step: the entry point called (or "effect", "answer",
\* "hydrate", "feed", "remote"), its argument (the table, for "hydrate" and
\* "feed"), the activation whose continuation or callback ran (0: none),
\* whether its transport call succeeded (for "feed": whether the row's id was
\* new), and the calls of supabase.from(t).insert it made
Op(op, arg, act, ok, inserts) ==
  [op |-> op, arg |-> arg, act |-> act, ok |-> ok, inserts |-> inserts]

isDemoMode == ~isSupabaseConfigured

NextQuery(q) ==
  CASE q = "messages" -> "reactions"
    [] q = "reactions" -> "message_reactions"
    [] OTHER -> "done"

\* values the clock can return when it is read: it never goes back
Clock == now..MaxClock

\* the synthetic message of the demo branch of fetchInitialData
SystemMessage(room, ts) ==
  [id |-> <<"system-info">>, text |-> "demo", timestamp |-> ts,
   user_id |-> SystemUser, isSender |-> FALSE, room_id |-> room]

\* the body of the effect: fetchInitialData() up to its first await, then the
\* three channels
EffectSetup(room) ==
  IF rev = "part_000"
  THEN IF isDemoMode THEN NewAct(room, "done", "none")
                     ELSE NewAct(room, "messages", "live")
  ELSE IF isSupabaseConfigured
       THEN NewAct(room, "messages", "live")
       \* the mock's select() returns a Promise, so .eq() on it throws inside
       \* fetchInitialData; the channels are opened all the same
       ELSE NewAct(room, "thrown", "live")

\* what the effect's synchronous part writes to the messages state
SeededMessages(room, ts) ==
  IF rev = "part_000" /\ isDemoMode THEN <<SystemMessage(room, ts)>> ELSE messages

\* only the demo branch reads the clock (new Date())
EffectClock(ts) == ts \in Clock /\ (ts = now \/ (rev = "part_000" /\ isDemoMode))

\* Cleanup that leaves the three channels subscribed
CleanupKeepsChannels(a) == [a EXCEPT !.isMounted = FALSE]

\* Cleanup that removes messageChannel twice and messageReactionChannel never
CleanupWrongChannel(a) ==
  [a EXCEPT !.isMounted = FALSE,
            !.subs = [t \in TableSet |->
                        IF t = "message_reactions" THEN a.subs[t] ELSE "removed"],
            !.removeCalls = [t \in TableSet |->
                        CASE t = "messages" -> a.removeCalls[t] + 2
                          [] t = "reactions" -> a.removeCalls[t] + 1
                          [] OTHER -> a.removeCalls[t]],
            !.feed = [t \in TableSet |->
                        IF t = "message_reactions" THEN a.feed[t] ELSE <<>>]]

\* Cleanup that removes messageChannel and messageReactionChannel only
CleanupKeepsReactionChannel(a) ==
  [a EXCEPT !.isMounted = FALSE,
            !.subs = [t \in TableSet |->
                        IF t = "reactions" THEN a.subs[t] ELSE "removed"],
            !.removeCalls = [t \in TableSet |->
                        IF t = "reactions" THEN a.removeCalls[t]
                        ELSE a.removeCalls[t] + 1],
            !.feed = [t \in TableSet |->
                        IF t = "reactions" THEN a.feed[t] ELSE <<>>]]

\* the function returned by the effect
Cleanup(a) ==
  IF rev = "part_000"
  THEN IF isDemoMode THEN a
       ELSE [a EXCEPT !.subs = [t \in TableSet |-> "removed"],
                      !.removeCalls = [t \in TableSet |-> @[t] + 1],
                      !.feed = NoFeed]
  ELSE [a EXCEPT !.isMounted = FALSE,
                 !.subs = [t \in TableSet |-> "removed"],
                 !.removeCalls = [t \in TableSet |-> @[t] + 1],
                 !.feed = NoFeed]

CleanupCurrent == [acts EXCEPT ![Len(acts)] = Cleanup(acts[Len(acts)])]

\* ----------------------------------------------------------- normalisation
\* fetchInitialData: messagesData.map(m => ({...m, isSender, userId, mentions}))
HydrateMessage(m) ==
  Spread(m, [isSender |-> (m.user_id = LocalHandle),
             userId |-> m.user_id,
             mentions |-> IF "mentions" \in DOMAIN m THEN m.mentions ELSE <<>>])

\* DefaultType that overwrites the type a row has
DefaultTypeAlwaysLike(r) == Spread(r, [type |-> "like"])

\* fetchInitialData: map(r => ({...r, type: r.type || 'like'}))
DefaultType(r) ==
  Spread(r, [type |-> IF "type" \in DOMAIN r THEN r.type ELSE "like"])

HydrateRow(table, r) ==
  CASE table = "messages" -> HydrateMessage(r)
    [] table = "reactions" -> r
    [] OTHER -> DefaultType(r)

\* data.map(...): the rows of one response, each normalised, in the order returned
HydrateRows(table, data) ==
  [i \in 1..Len(data) |-> HydrateRow(table, data[i])]

\* FeedRow that flags every message of the feed as the local participant's
FeedRowAllOwn(table, r) ==
  CASE table = "messages" -> Spread(r, [isSender |-> TRUE])
    [] table = "reactions" -> r
    [] OTHER -> DefaultType(r)

\* the INSERT callbacks: what is stored for payload.new
FeedRow(table, r) ==
  CASE table = "messages" -> Spread(r, [isSender |-> (r.user_id = LocalHandle)])
    [] table = "reactions" -> r
    [] OTHER -> DefaultType(r)

\* Merge without the `some(e => e.id === new.id)` test
MergeNoDedup(prev, new) == Append(prev, new)

\* Merge that puts the new entry first: [new, ...prev]
MergePrepends(prev, new) == IF SomeId(prev, new.id) THEN prev ELSE <<new>> \o prev

\* the state updaters of the INSERT callbacks
Merge(prev, new) == IF SomeId(prev, new.id) THEN prev ELSE Append(prev, new)

Coll(table) ==
  CASE table = "messages" -> messages
    [] table = "reactions" -> reactions
    [] OTHER -> messageReactions

\* set the collection of one table, leave the other two
SetColl(table, val) ==
  /\ messages' = IF table = "messages" THEN val ELSE messages
  /\ reactions' = IF table = "reactions" THEN val ELSE reactions
  /\ messageReactions' = IF table = "message_reactions" THEN val ELSE messageReactions

\* ------------------------------------------- browser storage, mock client
\* const storageKey = (table) => `mock-${table}`
storageKey(table) ==
  CASE table = "messages" -> "mock-messages"
    [] table = "reactions" -> "mock-reactions"
    [] OTHER -> "mock-message_reactions"

StorageKeys == {"chat-user-id"} \cup {storageKey(t) : t \in TableSet}

\* an item of the storage: absent (getItem returns null), or set to a value
NoItem == [set |-> FALSE]
Item(v) == [set |-> TRUE, val |-> v]

\* JSON.stringify of a table: per row its properties as key/value pairs (a
\* property whose value is undefined is not in the domain of the row, and
\* not in the text)
Stringify(rows) ==
  [k \in 1..Len(rows) |-> {<<f, rows[k][f]>> : f \in DOMAIN rows[k]}]

\* JSON.parse of a serialized table
Parse(json) ==
  [k \in 1..Len(json) |->
     [f \in {pr[1] : pr \in json[k]} |-> (CHOOSE pr \in json[k] : pr[1] = f)[2]]]

\* JSON.parse(storage.getItem(storageKey(table)) || '[]')
Loaded(items, table) ==
  IF items[storageKey(table)].set THEN Parse(items[storageKey(table)].val) ELSE <<>>

\* a row an earlier session of the simplified mode left in the storage
EarlierRow == [id |-> <<"uuid", 0>>, timestamp |-> 0, room_id |-> "A", type |-> "like"]

\* the storage when the page is loaded and the hook has rendered once: the
\* handle of getUserId, and the mock tables an earlier session persisted
StorageAtLoad ==
  { [k \in StorageKeys |->
       CASE k = "chat-user-id" -> Item(LocalHandle)
         [] k = "mock-reactions" -> earlier
         [] OTHER -> NoItem] : earlier \in {NoItem, Item(Stringify(<<EarlierRow>>))} }

NoStorage == [k \in StorageKeys |-> NoItem]

NoChain == [recv |-> "none"]

\* ------------------------------------------------------------------- Init
\* the state after the first render of the hook, before its effect has run
Init ==
  /\ isSupabaseConfigured \in BOOLEAN
  /\ rev \in Revisions
  /\ mounted = TRUE
  /\ roomId = "A"
  /\ messages = <<>>
  /\ reactions = <<>>
  /\ messageReactions = <<>>
  /\ acts = <<>>
  /\ db = [t \in TableSet |-> <<>>]
  /\ now = 0
  /\ synth = 0
  /\ lastOp = Op("init", "", 0, TRUE, 0)
  /\ storageAvailable \in BOOLEAN
  /\ localStorage \in (IF storageAvailable THEN StorageAtLoad ELSE {NoStorage})
  /\ memoryStore = [t \in TableSet |-> Loaded(localStorage, t)]
  /\ chain = NoChain
  /\ userId = LocalHandle
  /\ newMessage = <<>>
  /\ cursor = 0
  /\ isComposing = FALSE
  /\ selectedMentions = <<>>
  /\ mentionQuery = <<>>
  /\ showMentionList = FALSE
  /\ location = [allowHomeNavigation |-> FALSE]
  /\ sessionStorage = {}
  /\ canNavigateHome = FALSE

\* a browser with working storage in which the simplified mode left nothing
FreshStorage ==
  /\ storageAvailable
  /\ \A t \in TableSet : ~localStorage[storageKey(t)].set

\* ---------------------------------------------------------------- effects
\* first run of the effect after the first render
MountEffect(ts) ==
  /\ mounted /\ acts = <<>>
  /\ EffectClock(ts)
  /\ now' = ts
  /\ acts' = <<EffectSetup(roomId)>>
  /\ messages' = SeededMessages(roomId, ts)
  /\ lastOp' = Op("effect", "", 0, TRUE, 0)
  /\ UNCHANGED adapter /\ UNCHANGED composer /\ UNCHANGED <<isSupabaseConfigured, rev, mounted, roomId, reactions,
                 messageReactions, db, synth>>

\* the first render of the hook by a consumer that keeps its own state
Mount(ts) == MountEffect(ts) /\ UNCHANGED nav

\* activations left behind whose fetchInitialData has not returned yet
InFlight == Cardinality({i \in 1..Len(acts) - 1 : acts[i].q \in TableSet})

\* a render with another roomId: cleanup of the old effect, then the new one
RoomEffect(r, ts) ==
  /\ mounted /\ acts # <<>> /\ r # roomId
  /\ Len(acts) < MaxActivations
  /\ InFlight < MaxStale
  /\ EffectClock(ts)
  /\ now' = ts
  /\ roomId' = r
  /\ acts' = Append(CleanupCurrent, EffectSetup(r))
  /\ messages' = SeededMessages(r, ts)
  /\ lastOp' = Op("effect", "", 0, TRUE, 0)
  /\ UNCHANGED adapter /\ UNCHANGED composer /\ UNCHANGED <<isSupabaseConfigured, rev, mounted, reactions,
                 messageReactions, db, synth>>

\* a render with another roomId by a consumer that keeps its own state
SwitchRoom(r, ts) == RoomEffect(r, ts) /\ UNCHANGED nav

\* the consumer unmounts: cleanup only
Detach ==
  /\ mounted /\ acts # <<>>
  /\ mounted' = FALSE
  /\ acts' = CleanupCurrent
  /\ lastOp' = Op("effect", "", 0, TRUE, 0)
  /\ UNCHANGED adapter /\ UNCHANGED page /\ UNCHANGED <<isSupabaseConfigured, rev, roomId, messages, reactions,
                 messageReactions, db, now, synth>>

\* -------------------------------------------------------------- hydration
\* the transport evaluates the query activation i is awaiting
ServerAnswer(i) ==
  /\ isSupabaseConfigured
  /\ acts[i].q \in TableSet /\ acts[i].resp.st = "none"
  /\ acts' = [acts EXCEPT ![i].resp =
                [st |-> "data", data |-> Query(acts[i].q, acts[i].room)]]
  /\ lastOp' = Op("answer", "", 0, TRUE, 0)
  /\ UNCHANGED adapter /\ UNCHANGED page /\ UNCHANGED <<isSupabaseConfigured, rev, mounted, roomId, messages, reactions,
                 messageReactions, db, now, synth>>

\* MaySet without the isMounted flag
MaySetNoFlag(a) == mounted

\* may the continuation of fetchInitialData of activation a set state
MaySet(a) ==
  /\ mounted
  /\ rev = "part_000" \/ a.isMounted

\* fetchInitialData returning at the first query error
HydrationResolveAbort(i, err) ==
  LET a == acts[i]
      t == a.q
  IN /\ t \in TableSet /\ a.resp.st # "none"
     /\ IF ~err /\ MaySet(a)
        THEN SetColl(t, HydrateRows(t, a.resp.data))
        ELSE UNCHANGED collections
     /\ acts' = [acts EXCEPT ![i].q = IF err THEN "done" ELSE NextQuery(t),
                             ![i].resp = NoResp]
     /\ lastOp' = Op("hydrate", t, i, ~err, 0)
     /\ UNCHANGED adapter /\ UNCHANGED page /\ UNCHANGED <<isSupabaseConfigured, rev, mounted, roomId, db, now, synth>>

\* fetchInitialData of activation i resumes after an await, with the rows the
\* transport read or (err) with an error
HydrationResolve(i, err) ==
  LET a == acts[i]
      t == a.q
  IN /\ t \in TableSet /\ a.resp.st # "none"
     /\ IF ~err /\ MaySet(a)
        THEN SetColl(t, HydrateRows(t, a.resp.data))
        ELSE UNCHANGED collections
     /\ acts' = [acts EXCEPT ![i].q = NextQuery(t), ![i].resp = NoResp]
     /\ lastOp' = Op("hydrate", t, i, ~err, 0)
     /\ UNCHANGED adapter /\ UNCHANGED page /\ UNCHANGED <<isSupabaseConfigured, rev, mounted, roomId, db, now, synth>>

\* ------------------------------------------------------------------- feed
Total == Len(db["messages"]) + Len(db["reactions"]) + Len(db["message_reactions"])

ServerId == <<"srv", Total + 1>>

\* the row the transport stores for an inserted row: id and timestamp default
StoredRow(row, ts) ==
  Spread([id |-> ServerId, timestamp |-> ts], row)

\* the feeds after an insert of row r into table t: every live channel of the
\* table filtered to the row's room receives it when the transport delivers
\* the event to this client
Notify(t, r, deliver) ==
  [i \in 1..Len(acts) |->
     IF acts[i].subs[t] = "live" /\ acts[i].room = r.room_id /\ deliver
     THEN [acts[i] EXCEPT !.feed[t] = Append(@, r)]
     ELSE acts[i]]

\* another participant inserts a row
RemoteInsert(t, room, payload, ts) ==
  LET r == StoredRow(Spread(payload, [room_id |-> room]), ts)
  IN /\ isSupabaseConfigured
     /\ Total < MaxRows
     /\ ts \in Clock
     /\ now' = ts
     /\ db' = [db EXCEPT ![t] = Append(@, r)]
     /\ acts' = Notify(t, r, TRUE)
     /\ lastOp' = Op("remote", "", 0, TRUE, 0)
     /\ UNCHANGED adapter /\ UNCHANGED page /\ UNCHANGED <<isSupabaseConfigured, rev, mounted, roomId, messages,
                    reactions, messageReactions, synth>>

\* the INSERT callback of the channel of table t of activation i runs
FeedEvent(i, t) ==
  LET a == acts[i]
      new == FeedRow(t, Head(a.feed[t]))
  IN /\ mounted
     /\ a.subs[t] = "live" /\ a.feed[t] # <<>>
     /\ SetColl(t, Merge(Coll(t), new))
     /\ acts' = [acts EXCEPT ![i].feed[t] = Tail(@)]
     /\ lastOp' = Op("feed", t, i, ~SomeId(Coll(t), new.id), 0)
     /\ UNCHANGED adapter /\ UNCHANGED page /\ UNCHANGED <<isSupabaseConfigured, rev, mounted, roomId, db, now, synth>>

\* -------------------------------------------------------------- mutations
\* `local-${Date.now()}` (useChatRoom.ts) and
\* `local-...${now}-${Math.random()...}` (part_000); the random suffixes are
\* taken to be pairwise different
LocalId(prefix, ts) ==
  IF rev = "part_000" THEN <<prefix, ts, synth>> ELSE <<"local", ts>>

\* Mutate whose degraded branch puts the entry first: [entry, ...prev]
MutatePrepends(op, t, entry, row, arg, ts, ok, echo) ==
  /\ mounted /\ acts # <<>>
  /\ ~isSupabaseConfigured
  /\ synth < MaxSynth /\ synth' = synth + 1 /\ ts \in now..MaxClock
  /\ now' = ts
  /\ ok /\ ~echo
  /\ messages' = IF t = "messages" THEN <<entry>> \o messages ELSE messages
  /\ reactions' = IF t = "reactions" THEN <<entry>> \o reactions ELSE reactions
  /\ messageReactions' = IF t = "message_reactions" THEN <<entry>> \o messageReactions
                         ELSE messageReactions
  /\ lastOp' = [op |-> op, arg |-> arg, act |-> 0, ok |-> TRUE, inserts |-> 0]
  /\ UNCHANGED adapter /\ UNCHANGED <<isSupabaseConfigured, rev, mounted, roomId, acts, db>>

\* does this call of a mutation entry point synthesize an id: part_000 does
\* before it looks at the mode, useChatRoom.ts only in its degraded branch
Synthesizes == rev = "part_000" \/ ~isSupabaseConfigured

\* Mutate that submits the row a second time when the insert failed
MutateRetries(op, t, entry, row, arg, ts, ok, echo) ==
  /\ mounted /\ acts # <<>>
  /\ isSupabaseConfigured
  /\ IF Synthesizes
     THEN synth < MaxSynth /\ synth' = synth + 1 /\ ts \in Clock
     ELSE synth' = synth /\ ts \in Clock
  /\ now' = ts
  /\ lastOp' = Op(op, arg, 0, ok, IF ok THEN 1 ELSE 2)
  /\ UNCHANGED collections
  /\ Total < MaxRows
  /\ ~SomeId(db[t], StoredRow(row, ts).id)
  /\ db' = [db EXCEPT ![t] = Append(@, StoredRow(row, ts))]
  /\ acts' = Notify(t, StoredRow(row, ts), echo)
  /\ UNCHANGED adapter /\ UNCHANGED <<isSupabaseConfigured, rev, mounted, roomId>>

\* Mutate whose failed insert tears the activation down (its channels removed)
MutateClosesOnError(op, t, entry, row, arg, ts, ok, echo) ==
  /\ mounted /\ acts # <<>>
  /\ IF Synthesizes
     THEN synth < MaxSynth /\ synth' = synth + 1 /\ ts \in Clock
     ELSE synth' = synth /\ (ts \in Clock /\ (ok \/ ts = now))
  /\ now' = ts
  /\ IF ~isSupabaseConfigured
     THEN /\ ok /\ ~echo
          /\ SetColl(t, Append(Coll(t), entry))
          /\ lastOp' = Op(op, arg, 0, TRUE, 0)
          /\ UNCHANGED <<acts, db>>
     ELSE /\ lastOp' = Op(op, arg, 0, ok, 1)
          /\ UNCHANGED collections
          /\ IF ok
             THEN /\ Total < MaxRows
                  /\ ~SomeId(db[t], StoredRow(row, ts).id)
                  /\ db' = [db EXCEPT ![t] = Append(@, StoredRow(row, ts))]
                  /\ acts' = Notify(t, StoredRow(row, ts), echo)
             ELSE /\ ~echo
                  /\ acts' = CleanupCurrent
                  /\ UNCHANGED db
  /\ UNCHANGED adapter /\ UNCHANGED <<isSupabaseConfigured, rev, mounted, roomId>>

\* a mutation entry point called at clock value ts (its caller says what
\* becomes of the caller's own state): in degraded mode append
\* entry to the collection of table t and return; otherwise insert row through
\* the transport, which stores it or fails (ok) and may or may not notify this
\* client's own feed (echo)
Mutate(op, t, entry, row, arg, ts, ok, echo) ==
  /\ mounted /\ acts # <<>>
  /\ IF Synthesizes
     THEN synth < MaxSynth /\ synth' = synth + 1 /\ ts \in Clock
     ELSE synth' = synth /\ (ts \in Clock /\ (ok \/ ts = now))
  /\ now' = ts
  /\ IF ~isSupabaseConfigured
     THEN /\ ok /\ ~echo
          /\ SetColl(t, Append(Coll(t), entry))
          /\ lastOp' = Op(op, arg, 0, TRUE, 0)
          /\ UNCHANGED <<acts, db>>
     ELSE /\ lastOp' = Op(op, arg, 0, ok, 1)
          /\ UNCHANGED collections
          /\ IF ok
             THEN /\ Total < MaxRows
                  /\ ~SomeId(db[t], StoredRow(row, ts).id)
                  /\ db' = [db EXCEPT ![t] = Append(@, StoredRow(row, ts))]
                  /\ acts' = Notify(t, StoredRow(row, ts), echo)
             ELSE /\ ~echo
                  /\ UNCHANGED <<acts, db>>
  /\ UNCHANGED adapter /\ UNCHANGED <<isSupabaseConfigured, rev, mounted, roomId>>

\* baseMessage of sendMessage
BaseMessage(inp) ==
  [text |-> inp.text, room_id |-> roomId, user_id |-> LocalHandle,
   mentions |-> inp.mentions, is_host |-> inp.isHost,
   host_name |-> IF inp.isHost THEN inp.hostName ELSE Null]

sendMessage(inp, ts, ok, echo) ==
  LET id == [id |-> LocalId("local", ts), timestamp |-> ts]
  IN IF rev = "part_000"
     THEN Mutate("sendMessage", "messages",
                 Spread(Spread(BaseMessage(inp), id), [isSender |-> TRUE]),
                 Spread(BaseMessage(inp), id), inp.text, ts, ok, echo)
     ELSE Mutate("sendMessage", "messages",
                 Spread(Spread(BaseMessage(inp), id),
                        [isSender |-> TRUE, userId |-> LocalHandle]),
                 BaseMessage(inp), inp.text, ts, ok, echo)

\* addReaction whose record carries the participant's handle
addReactionSigned(type, ts, ok, echo) ==
  LET new == [type |-> type, room_id |-> roomId, user_id |-> LocalHandle]
      id == [id |-> LocalId("local-reaction", ts), timestamp |-> ts]
  IN Mutate("addReaction", "reactions", Spread(new, id),
            IF rev = "part_000" THEN Spread(new, id) ELSE new, type, ts, ok, echo)

addReaction(type, ts, ok, echo) ==
  LET new == [type |-> type, room_id |-> roomId]
      id == [id |-> LocalId("local-reaction", ts), timestamp |-> ts]
  IN Mutate("addReaction", "reactions", Spread(new, id),
            IF rev = "part_000" THEN Spread(new, id) ELSE new, type, ts, ok, echo)

\* addMessageReaction that keeps one reaction per participant and message:
\* the degraded branch replaces the participant's earlier reaction
addMessageReactionOnce(messageId, type, ts, ok, echo) ==
  LET new == [message_id |-> messageId, user_id |-> LocalHandle,
              room_id |-> roomId, type |-> type]
      id == [id |-> LocalId("local-message-reaction", ts), timestamp |-> ts]
      others == SelectSeq(messageReactions,
                          LAMBDA e : ~(e.message_id = messageId /\ e.user_id = LocalHandle))
  IN IF isSupabaseConfigured
     THEN Mutate("addMessageReaction", "message_reactions", Spread(new, id),
                 IF rev = "part_000" THEN Spread(new, id) ELSE new, type, ts, ok, echo)
     ELSE /\ mounted /\ acts # <<>>
          /\ ok /\ ~echo
          /\ synth < MaxSynth /\ synth' = synth + 1 /\ ts \in Clock
          /\ now' = ts
          /\ messageReactions' = Append(others, Spread(new, id))
          /\ lastOp' = Op("addMessageReaction", type, 0, TRUE, 0)
          /\ UNCHANGED <<messages, reactions, acts, db>>
          /\ UNCHANGED adapter /\ UNCHANGED <<isSupabaseConfigured, rev, mounted, roomId>>

addMessageReaction(messageId, type, ts, ok, echo) ==
  LET new == [message_id |-> messageId, user_id |-> LocalHandle,
              room_id |-> roomId, type |-> type]
      id == [id |-> LocalId("local-message-reaction", ts), timestamp |-> ts]
  IN Mutate("addMessageReaction", "message_reactions", Spread(new, id),
            IF rev = "part_000" THEN Spread(new, id) ELSE new, type, ts, ok, echo)

\* the id of the first row the server stores, and an id no row has
FirstId == <<"srv", 1>>
UnknownId == <<"srv", 0>>

\* ids a caller passes to addMessageReaction: that of the last displayed
\* message, or one that no message has
MessageIds ==
  IF messages = <<>> THEN {UnknownId} ELSE {messages[Len(messages)].id, UnknownId}

\* rows another participant inserts into table t; its message reaction has
\* no type (earlier schema)
RemoteRows(t) ==
  CASE t = "messages" -> RemoteMessages
    [] t = "reactions" -> {[type |-> "idea"]}
    [] OTHER -> {[message_id |-> FirstId, user_id |-> RemoteHandle]}

Times == 0..MaxClock

\* ------------------------------------------------------------ mock client
MaxFilters == 1

\* the builder object returned by from(table), with the calls made on it so
\* far, the rows passed to insert and what the last call returned
Builder(table) ==
  [recv |-> "builder", table |-> table, filters |-> <<>>, orderField |-> Null,
   ascending |-> TRUE, calls |-> <<>>, arg |-> <<>>, res |-> [st |-> "none"]]

\* the next call of the chain is made on what the previous one returned: the
\* builder, or the Promise an async method returned, which has none of the
\* builder's methods (TypeError)
Called(name) == [chain EXCEPT !.calls = Append(@, name)]
Thrown(name) == [Called(name) EXCEPT !.recv = "thrown"]

\* const from = (table) => { ... return builder }
from(table) ==
  /\ ~isSupabaseConfigured
  /\ chain' = Builder(table)
  /\ UNCHANGED <<storageAvailable, localStorage, memoryStore, userId>>
  /\ UNCHANGED hook /\ UNCHANGED page

\* eq: (field, value) => { filters.push({ field, value }); return builder }
eq(value) ==
  /\ ~isSupabaseConfigured
  /\ chain.recv \in {"builder", "promise"}
  /\ IF chain.recv = "builder"
     THEN /\ Len(chain.filters) < MaxFilters
          /\ chain' = [Called("eq") EXCEPT
                         !.filters = Append(@, [field |-> "room_id", value |-> value])]
     ELSE chain' = Thrown("eq")
  /\ UNCHANGED <<storageAvailable, localStorage, memoryStore, userId>>
  /\ UNCHANGED hook /\ UNCHANGED page

\* order: (field, options) => { orderField = field;
\*                              ascending = options?.ascending !== false; ... }
order(asc) ==
  /\ ~isSupabaseConfigured
  /\ chain.recv \in {"builder", "promise"}
  /\ IF chain.recv = "builder"
     THEN /\ chain.orderField = Null
          /\ chain' = [Called("order") EXCEPT !.orderField = "timestamp",
                                             !.ascending = asc]
     ELSE chain' = Thrown("order")
  /\ UNCHANGED <<storageAvailable, localStorage, memoryStore, userId>>
  /\ UNCHANGED hook /\ UNCHANGED page

\* data = data.filter((row) => row[field] === value), for each filter in turn
RECURSIVE ApplyFilters(_, _)
ApplyFilters(data, filters) ==
  IF filters = <<>> THEN data
  ELSE ApplyFilters(FilterSeq(data, Head(filters).value), Tail(filters))

\* data.sort(comparator) with ascending false: the sort is stable, the
\* comparator puts the greater timestamp first
RECURSIVE InsertDescending(_, _)
InsertDescending(s, r) ==
  IF s = <<>> THEN <<r>>
  ELSE IF Head(s).timestamp >= r.timestamp
       THEN <<Head(s)>> \o InsertDescending(Tail(s), r)
       ELSE <<r>> \o s

RECURSIVE OrderDescending(_)
OrderDescending(s) ==
  IF s = <<>> THEN <<>>
  ELSE InsertDescending(OrderDescending(SubSeq(s, 1, Len(s) - 1)), s[Len(s)])

\* the body of select
Selected ==
  LET data == ApplyFilters(memoryStore[chain.table], chain.filters)
  IN IF chain.orderField = Null THEN data
     ELSE IF chain.ascending THEN OrderByTimestamp(data)
     ELSE OrderDescending(data)

\* select that filters and sorts the table itself instead of a copy
selectInPlace ==
  /\ ~isSupabaseConfigured
  /\ chain.recv \in {"builder", "promise"}
  /\ IF chain.recv = "builder"
     THEN /\ chain' = [Called("select") EXCEPT
                         !.recv = "promise",
                         !.res = [st |-> "fulfilled", data |-> Selected, error |-> Null]]
          /\ memoryStore' = [memoryStore EXCEPT ![chain.table] = Selected]
     ELSE chain' = Thrown("select") /\ UNCHANGED memoryStore
  /\ UNCHANGED <<storageAvailable, localStorage, userId>>
  /\ UNCHANGED hook /\ UNCHANGED page

\* select: async () => { ...; return { data, error: null } }
select ==
  /\ ~isSupabaseConfigured
  /\ chain.recv \in {"builder", "promise"}
  /\ IF chain.recv = "builder"
     THEN chain' = [Called("select") EXCEPT
                      !.recv = "promise",
                      !.res = [st |-> "fulfilled", data |-> Selected, error |-> Null]]
     ELSE chain' = Thrown("select")
  /\ UNCHANGED <<storageAvailable, localStorage, memoryStore, userId>>
  /\ UNCHANGED hook /\ UNCHANGED page

\* ------------------------------------------------------------------- view
\* handles MessageItem may be rendered with
ViewerHandles == {LocalHandle, RemoteHandle, "H3", Undefined}

\* const { ..., mentions = [] } = message
Mentions(message) ==
  IF "mentions" \in DOMAIN message THEN message.mentions ELSE <<>>

\* Array.prototype.includes
RECURSIVE Includes(_, _)
Includes(s, x) ==
  IF s = <<>> THEN FALSE
  ELSE IF Head(s) = x THEN TRUE ELSE Includes(Tail(s), x)

\* isMentioned that looks only at whether the message mentions anybody
isMentionedByAny(message, currentUserId) ==
  IF currentUserId # Undefined /\ currentUserId # ""
  THEN Mentions(message) # <<>>
  ELSE FALSE

\* const isMentioned = currentUserId ? mentions.includes(currentUserId) : false
isMentioned(message, currentUserId) ==
  IF currentUserId # Undefined /\ currentUserId # ""
  THEN Includes(Mentions(message), currentUserId)
  ELSE FALSE

\* handles.add(h) that does not look whether h is there already
AddHandleAgain(handles, h) == Append(handles, h)

\* handles.add(h) on the Set of participantHandles, in insertion order
AddHandle(handles, h) == IF Includes(handles, h) THEN handles ELSE Append(handles, h)

RECURSIVE AddAll(_, _)
AddAll(handles, hs) ==
  IF hs = <<>> THEN handles ELSE AddAll(AddHandle(handles, Head(hs)), Tail(hs))

\* a property that is set to a non-empty string
Named(m, f) == f \in DOMAIN m /\ m[f] # Null /\ m[f] # ""

\* the body of messages.forEach in participantHandles
HandlesOf(handles, m) ==
  LET h1 == IF "is_host" \in DOMAIN m /\ m.is_host /\ Named(m, "host_name")
            THEN AddHandle(handles, m.host_name) ELSE handles
      h2 == IF Named(m, "userId") THEN AddHandle(h1, m.userId) ELSE h1
      h3 == IF Named(m, "user_id") THEN AddHandle(h2, m.user_id) ELSE h2
  IN AddAll(h3, Mentions(m))

RECURSIVE ForEachMessage(_, _)
ForEachMessage(handles, msgs) ==
  IF msgs = <<>> THEN handles
  ELSE ForEachMessage(HandlesOf(handles, Head(msgs)), Tail(msgs))

\* const participantHandles = useMemo(() => { ... return Array.from(handles) })
participantHandles(msgs, currentUserId, hostName) ==
  LET h1 == ForEachMessage(<<>>, msgs)
      h2 == IF currentUserId # "" THEN AddHandle(h1, currentUserId) ELSE h1
  IN IF hostName # "" THEN AddHandle(h2, hostName) ELSE h2

\* the host name typed into RoomPage, or none
HostNames == {"", "Host"}

\* ------------------------------------------------------------- Dashboard
\* const systemMessageUser (the user_id part_000 gives its system message)
systemMessageUser == SystemUser

\* m.userId: undefined when the entry has no such property
UserIdOf(m) == IF "userId" \in DOMAIN m THEN m.userId ELSE Undefined

\* messages.filter(m => m.userId !== systemMessageUser).length
totalMessages(msgs) ==
  Cardinality({k \in 1..Len(msgs) : UserIdOf(msgs[k]) # systemMessageUser})

\* ------------------------------------------------- RoomPage: message form
\* a text is a sequence of tokens: whitespace, '@', or a run of other
\* characters that is the local participant's handle
Tokens == {" ", "@", LocalHandle}

MaxText == 2

\* the values a change event can give the textarea
Texts == UNION {[1..n -> Tokens] : n \in 0..MaxText}

\* [^\s@]
IsName(c) == c # " " /\ c # "@"

RECURSIVE TrimStart(_)
TrimStart(s) ==
  IF s = <<>> THEN <<>>
  ELSE IF Head(s) = " " THEN TrimStart(Tail(s)) ELSE s

RECURSIVE TrimEnd(_)
TrimEnd(s) ==
  IF s = <<>> THEN <<>>
  ELSE IF s[Len(s)] = " " THEN TrimEnd(SubSeq(s, 1, Len(s) - 1)) ELSE s

\* String.prototype.trim
Trim(s) == TrimEnd(TrimStart(s))

\* String.prototype.slice(start, end) with 0-based bounds inside the string
Slice(s, start, end) == SubSeq(s, start + 1, end)

\* the longest prefix of s matching [^\s@]*
RECURSIVE NameRun(_)
NameRun(s) ==
  IF s = <<>> THEN <<>>
  ELSE IF IsName(Head(s)) THEN <<Head(s)>> \o NameRun(Tail(s)) ELSE <<>>

\* /@([^\s@]{0,20})$/.exec(s): the 0-based index of the match, -1 for none
\* (only the last '@' can match; handles are shorter than 20 characters)
MentionMatch(s) ==
  LET ats == {i \in 1..Len(s) : s[i] = "@"}
      last == CHOOSE i \in ats : \A j \in ats : j <= i
  IN IF ats = {} THEN -1
     ELSE IF \A j \in (last + 1)..Len(s) : IsName(s[j]) THEN last - 1 ELSE -1

\* selectionStart || value.length
CursorOr(c, value) == IF c = 0 THEN Len(value) ELSE c

\* updateMentionState(value, cursorPosition)
updateMentionState(value, cursorPosition) ==
  LET textUpToCursor == Slice(value, 0, cursorPosition)
      match == MentionMatch(textUpToCursor)
  IN IF match >= 0
     THEN /\ mentionQuery' = Slice(textUpToCursor, match + 1, Len(textUpToCursor))
          /\ showMentionList' = TRUE
     ELSE /\ mentionQuery' = <<>>
          /\ showMentionList' = FALSE

\* handleMessageChange: the textarea reports a new value and cursor
handleMessageChange(value, c) ==
  /\ mounted /\ acts # <<>>
  /\ newMessage' = value
  /\ cursor' = c
  /\ updateMentionState(value, CursorOr(c, value))
  /\ UNCHANGED <<isComposing, selectedMentions>>
  /\ UNCHANGED hook /\ UNCHANGED adapter /\ UNCHANGED nav

\* onClick / onSelect of the textarea: the cursor moves
onSelect(c) ==
  /\ mounted /\ acts # <<>>
  /\ cursor' = c
  /\ updateMentionState(newMessage, CursorOr(c, newMessage))
  /\ UNCHANGED <<newMessage, isComposing, selectedMentions>>
  /\ UNCHANGED hook /\ UNCHANGED adapter /\ UNCHANGED nav

\* onCompositionStart / onCompositionEnd
onComposition(composing) ==
  /\ mounted /\ acts # <<>>
  /\ isComposing' = composing
  /\ UNCHANGED <<newMessage, cursor, selectedMentions, mentionQuery, showMentionList>>
  /\ UNCHANGED hook /\ UNCHANGED adapter /\ UNCHANGED nav

\* handle.toLowerCase().includes(lower): the query is empty or is the handle
Suggests(handle, query) == query = <<>> \/ query = <<handle>>

\* the handles of the suggestion buttons rendered (at most 6)
mentionSuggestions ==
  IF ~showMentionList THEN {}
  ELSE LET handles == participantHandles(messages, LocalHandle, "")
       IN {h \in {handles[k] : k \in 1..Len(handles)} : Suggests(h, mentionQuery)}

\* handleSelectMention(handle), the click on a suggestion button, with the
\* cursor placement it schedules
handleSelectMention(handle) ==
  LET c == CursorOr(cursor, newMessage)
      textUpToCursor == Slice(newMessage, 0, c)
      match == MentionMatch(textUpToCursor)
      before == Slice(textUpToCursor, 0, match)
      after == Slice(newMessage, c, Len(newMessage))
      inserted == <<"@", handle, " ">>
  IN /\ mounted /\ acts # <<>>
     /\ handle \in mentionSuggestions
     /\ IF match < 0
        THEN UNCHANGED composer
        ELSE /\ newMessage' = before \o inserted \o after
             /\ selectedMentions' = AddHandle(selectedMentions, handle)
             /\ showMentionList' = FALSE
             /\ cursor' = Len(before \o inserted)
             /\ UNCHANGED <<isComposing, mentionQuery>>
     /\ UNCHANGED hook /\ UNCHANGED adapter /\ UNCHANGED nav

\* the handle a run of name tokens spells: several tokens in a row spell no
\* participant's handle
Join(run) == IF Len(run) = 1 THEN run[1] ELSE "other"

\* Array.from(trimmed.matchAll(/@([^\s@]+)/g)).map(m => m[1])
RECURSIVE explicitMentions(_)
explicitMentions(s) ==
  IF s = <<>> THEN <<>>
  ELSE IF Head(s) = "@" /\ NameRun(Tail(s)) # <<>>
       THEN <<Join(NameRun(Tail(s)))>>
              \o explicitMentions(SubSeq(s, Len(NameRun(Tail(s))) + 2, Len(s)))
       ELSE explicitMentions(Tail(s))

\* explicitMentions.filter(handle => participantHandles.includes(handle))
RECURSIVE KnownHandles(_, _)
KnownHandles(hs, known) ==
  IF hs = <<>> THEN <<>>
  ELSE IF Includes(known, Head(hs))
       THEN <<Head(hs)>> \o KnownHandles(Tail(hs), known)
       ELSE KnownHandles(Tail(hs), known)

\* Array.from(new Set([...selectedMentions, ...known explicit mentions]))
allMentions(trimmed) ==
  AddAll(AddAll(<<>>, selectedMentions),
         KnownHandles(explicitMentions(trimmed),
                      participantHandles(messages, LocalHandle, "")))

\* the page is opened through the attendee link: no host=1 parameter
isHostMode == FALSE

\* handleSendMessage without the isComposing test
handleSendMessageComposing ==
  LET trimmed == Trim(newMessage)
  IN /\ mounted /\ acts # <<>>
     /\ IF trimmed # <<>>
        THEN /\ \E ts \in Times, ok, echo \in BOOLEAN :
                  sendMessage([text |-> trimmed, mentions |-> allMentions(trimmed),
                               isHost |-> isHostMode, hostName |-> Undefined],
                              ts, ok, echo)
             /\ newMessage' = <<>>
             /\ cursor' = 0
             /\ selectedMentions' = <<>>
             /\ mentionQuery' = <<>>
             /\ showMentionList' = FALSE
             /\ UNCHANGED isComposing
        ELSE UNCHANGED vars
     /\ UNCHANGED nav

\* handleSendMessage: the form's onSubmit
handleSendMessage ==
  LET trimmed == Trim(newMessage)
  IN /\ mounted /\ acts # <<>>
     /\ IF trimmed # <<>> /\ ~isComposing
        THEN /\ \E ts \in Times, ok, echo \in BOOLEAN :
                  sendMessage([text |-> trimmed, mentions |-> allMentions(trimmed),
                               isHost |-> isHostMode, hostName |-> Undefined],
                              ts, ok, echo)
             /\ newMessage' = <<>>
             /\ cursor' = 0
             /\ selectedMentions' = <<>>
             /\ mentionQuery' = <<>>
             /\ showMentionList' = FALSE
             /\ UNCHANGED isComposing
        ELSE UNCHANGED vars
     /\ UNCHANGED nav

\* onKeyDown of the textarea with Enter and no Shift
onKeyDown ==
  IF ~isComposing THEN handleSendMessage ELSE mounted /\ acts # <<>> /\ UNCHANGED vars


\* ------------------------------------------------ RoomPage: home navigation
\* the canNavigateHome effect that keeps one grant for all rooms
NavEffectAnyRoom(room, allow) ==
  /\ location' = [allowHomeNavigation |-> allow]
  /\ sessionStorage' = IF allow THEN Rooms ELSE sessionStorage
  /\ canNavigateHome' = (sessionStorage' # {})

\* the effect on [decodedRoomId, location.state]: store the grant the
\* location carries under `allowHomeNavigation:${room}`, then read that key
NavEffect(room, allow) ==
  /\ location' = [allowHomeNavigation |-> allow]
  /\ sessionStorage' = IF allow THEN sessionStorage \cup {room} ELSE sessionStorage
  /\ canNavigateHome' = (room \in sessionStorage')

\* RoomPage is rendered for the first time, through in-app navigation
\* (allow) or through a link
Open(allow, ts) == MountEffect(ts) /\ NavEffect(roomId, allow)

\* the route changes to another room while RoomPage stays mounted
EnterRoom(r, allow, ts) == RoomEffect(r, ts) /\ NavEffect(r, allow)

\* the location of the same room is replaced by one with another state
Relocate(allow) ==
  /\ mounted /\ acts # <<>>
  /\ allow # location.allowHomeNavigation
  /\ NavEffect(roomId, allow)
  /\ UNCHANGED hook /\ UNCHANGED adapter /\ UNCHANGED composer


\* ------------------------------------------------------------------- Next
Effects ==
  \/ \E ts \in Times : Mount(ts)
  \/ \E r \in Rooms, ts \in Times : SwitchRoom(r, ts)
  \/ Detach

Hydration ==
  \/ \E i \in 1..Len(acts) : ServerAnswer(i)
  \/ \E i \in 1..Len(acts), err \in BOOLEAN : HydrationResolve(i, err)

Feed == \E i \in 1..Len(acts), t \in TableSet : FeedEvent(i, t)

Remote ==
  \E t \in TableSet, room \in Rooms, ts \in Times :
    \E p \in RemoteRows(t) : RemoteInsert(t, room, p, ts)

\* the callers of the three entry points, with arguments from S and R
Mutations(S, R) ==
  \/ \E inp \in S, ts \in Times, ok, echo \in BOOLEAN :
       sendMessage(inp, ts, ok, echo) /\ UNCHANGED page
  \/ \E ty \in R, ts \in Times, ok, echo \in BOOLEAN :
       addReaction(ty, ts, ok, echo) /\ UNCHANGED page
  \/ \E m \in MessageIds, ty \in R, ts \in Times, ok, echo \in BOOLEAN :
       addMessageReaction(m, ty, ts, ok, echo) /\ UNCHANGED page

\* connected mode, the hook synchronizing with other participants' writes
Next == Effects \/ Hydration \/ Feed \/ Remote

InitConnected == Init /\ isSupabaseConfigured = TRUE /\ FreshStorage

Spec == InitConnected /\ [][Next]_vars

\* connected mode, the hook's own writes
NextWrite == Effects \/ Hydration \/ Feed \/ Mutations(WriteInputs, {"idea"})

SpecWrite == InitConnected /\ [][NextWrite]_vars

\* degraded mode: no transport is configured
NextDegraded == Effects \/ Mutations(SendInputs, ReactInputs)

InitDegraded == Init /\ isSupabaseConfigured = FALSE /\ FreshStorage

SpecDegraded == InitDegraded /\ [][NextDegraded]_vars

\* rows of other clients with the variety the normalisations look at: a
\* message of another participant and one of the local participant's handle
\* (the same browser in another tab), a message reaction without type
\* (earlier schema) and one with a type
VariedRows(t) ==
  CASE t = "messages" ->
         { [text |-> "yo", user_id |-> RemoteHandle, is_host |-> FALSE, host_name |-> Null],
           [text |-> "me", user_id |-> LocalHandle, is_host |-> FALSE, host_name |-> Null] }
    [] t = "reactions" -> {}
    [] OTHER -> { [message_id |-> FirstId, user_id |-> RemoteHandle],
                  [message_id |-> FirstId, user_id |-> RemoteHandle, type |-> "idea"] }

RemoteVaried ==
  \E t \in TableSet, ts \in Times :
    \E p \in VariedRows(t) : RemoteInsert(t, roomId, p, ts)

\* connected mode, rows of every shape inserted into the active room
NextRows == Effects \/ Hydration \/ Feed \/ RemoteVaried

SpecRows == InitConnected /\ [][NextRows]_vars

\* rows in all the tables of the mock client
MockTotal ==
  Len(memoryStore["messages"]) + Len(memoryStore["reactions"])
    + Len(memoryStore["message_reactions"])

\* randomId(): crypto.randomUUID(), taken to be different at every call
randomId(k) == <<"uuid", synth + k>>

\* rows.map(row => ({ ...row, id: row.id || randomId(),
\*                    timestamp: row.timestamp || new Date().toISOString() }))
\* (the ids and timestamps callers supply are non-empty strings, hence truthy)
Normalized(rows, ts) ==
  [k \in 1..Len(rows) |->
     Spread(rows[k],
            [id |-> IF "id" \in DOMAIN rows[k] THEN rows[k].id ELSE randomId(k),
             timestamp |-> IF "timestamp" \in DOMAIN rows[k] THEN rows[k].timestamp ELSE ts])]

\* persist(table), with the tables as they are in store
persist(table, store) ==
  IF ~storageAvailable THEN localStorage
  ELSE [localStorage EXCEPT ![storageKey(table)] = Item(Stringify(store[table]))]

\* Delivered that hands the first inserted row to the INSERT callbacks
DeliveredToCallbacks(table, rows) == Notify(table, rows[1], TRUE)

\* the feeds after an insert into the mock client: channel().on() drops the
\* callback it is given, so no activation receives anything
Delivered(table, rows) == acts

\* insert: async (rows) => { normalized = ...; memoryStore[table] = [...];
\*                           persist(table); return { data: normalized, error: null } }
\* quota: storage.setItem throws (QuotaExceededError), which nothing catches
insert(rows, ts, quota) ==
  /\ ~isSupabaseConfigured
  /\ chain.recv \in {"builder", "promise"}
  /\ IF chain.recv = "builder"
     THEN LET t == chain.table
              normalized == Normalized(rows, ts)
              store == [memoryStore EXCEPT ![t] = @ \o normalized]
          IN /\ MockTotal < MaxRows /\ synth < MaxSynth
             /\ ts \in Clock
             /\ quota => storageAvailable
             /\ now' = ts
             /\ synth' = synth + Len(rows)
             /\ memoryStore' = store
             /\ localStorage' = IF quota THEN localStorage ELSE persist(t, store)
             /\ chain' = [Called("insert") EXCEPT
                            !.recv = "promise",
                            !.arg = rows,
                            !.res = IF quota THEN [st |-> "rejected"]
                                    ELSE [st |-> "fulfilled", data |-> normalized,
                                          error |-> Null]]
             /\ acts' = Delivered(t, normalized)
     ELSE /\ chain' = Thrown("insert")
          /\ UNCHANGED <<localStorage, memoryStore, now, synth, acts>>
  /\ UNCHANGED page /\ UNCHANGED <<storageAvailable, userId>>
  /\ UNCHANGED <<isSupabaseConfigured, rev, mounted, roomId, messages, reactions,
                 messageReactions, db, lastOp>>

\* rows callers insert: one that leaves id and timestamp to the client, one
\* that supplies both
BareRow(room) == [room_id |-> room, type |-> "idea"]
GivenRow(room) == [id |-> <<"given">>, timestamp |-> 0, room_id |-> room, type |-> "like"]

InsertInputs ==
  UNION { { <<BareRow(r)>>, <<GivenRow(r)>>, <<BareRow(r), GivenRow(r)>> } : r \in Rooms }

\* the calls a client of the mock makes
MockClient ==
  \/ \E t \in TableSet : from(t)
  \/ \E r \in Rooms : eq(r)
  \/ \E asc \in BOOLEAN : order(asc)
  \/ select
  \/ \E rows \in InsertInputs, ts \in Times, quota \in BOOLEAN : insert(rows, ts, quota)

\* another participant posts a message to the active room
RemotePeer == \E p \in RemoteMessages : RemoteInsert("messages", roomId, p, now)

\* the mock client alone, called directly
NextMock == MockClient

InitMock == Init /\ isSupabaseConfigured = FALSE

SpecMock == InitMock /\ [][NextMock]_vars

\* the hook's entry points in degraded mode
LocalMutations == ~isSupabaseConfigured /\ Mutations(WriteInputs, {"idea"})

\* a client of the mock inserts a row for the active room
DirectInsert ==
  \/ \E t \in TableSet : from(t)
  \/ insert(<<BareRow(roomId)>>, now, FALSE)

\* either mode: the hook with its feeds, and in degraded mode the mock client
\* receiving inserts
NextProducer ==
  Effects \/ Hydration \/ Feed \/ RemotePeer \/ LocalMutations \/ DirectInsert

InitProducer == Init /\ storageAvailable = TRUE

SpecProducer == InitProducer /\ [][NextProducer]_vars

\* -------------------------------------------------------------- identity
\* handles Math.random() can produce in getUserId
RandomHandles == {"H5", "H6"}

\* getUserId that generates and stores a handle at every call
getUserIdAnew(h) ==
  /\ mounted
  /\ userId' = h
  /\ localStorage' = IF storageAvailable
                     THEN [localStorage EXCEPT !["chat-user-id"] = Item(h)]
                     ELSE localStorage
  /\ UNCHANGED page /\ UNCHANGED <<storageAvailable, memoryStore, chain>>
  /\ UNCHANGED <<isSupabaseConfigured, rev, mounted, roomId, messages, reactions,
                 messageReactions, acts, db, now, synth, lastOp>>

\* getUserId(), evaluated as the argument of useRef at every render of the
\* hook (the ref keeps the value of the first render); h is the handle
\* Math.random() would give
getUserId(h) ==
  /\ mounted
  /\ IF ~storageAvailable
     THEN userId' = h /\ UNCHANGED localStorage
     ELSE IF localStorage["chat-user-id"].set
          THEN userId' = localStorage["chat-user-id"].val /\ UNCHANGED localStorage
          ELSE /\ userId' = h
               /\ localStorage' = [localStorage EXCEPT !["chat-user-id"] = Item(h)]
  /\ UNCHANGED page /\ UNCHANGED <<storageAvailable, memoryStore, chain>>
  /\ UNCHANGED <<isSupabaseConfigured, rev, mounted, roomId, messages, reactions,
                 messageReactions, acts, db, now, synth, lastOp>>

\* the user clears the data of the site in the browser: getItem returns null
\* from then on (once per page)
ClearSiteData ==
  /\ storageAvailable
  /\ localStorage["chat-user-id"] = Item(LocalHandle)
  /\ localStorage' = NoStorage
  /\ UNCHANGED page /\ UNCHANGED <<storageAvailable, memoryStore, chain, userId>>
  /\ UNCHANGED <<isSupabaseConfigured, rev, mounted, roomId, messages, reactions,
                 messageReactions, acts, db, now, synth, lastOp>>

Render == \E h \in RandomHandles : getUserId(h)

\* with storage: the hook's operations (hydration and feed in connected mode,
\* local writes in demo mode), its renders, and the user clearing the storage
NextIdentity ==
  Effects \/ Hydration \/ Feed \/ RemotePeer \/ LocalMutations
    \/ Render \/ ClearSiteData

SpecIdentity == InitProducer /\ [][NextIdentity]_vars

\* the callers of addReaction alone
Reacting ==
  \E ty \in ReactInputs, ts \in Times, ok, echo \in BOOLEAN :
    addReaction(ty, ts, ok, echo) /\ UNCHANGED page

\* both modes, room reactions only
NextReactions == Effects \/ Hydration \/ Feed \/ Reacting

InitReactions == Init /\ FreshStorage

SpecReactions == InitReactions /\ [][NextReactions]_vars

\* messages sent from the form in one run
MaxSent == 2

\* the events of the message form (a suggestion is picked only while the text
\* is no longer than the texts typed)
FormEvents ==
  \/ \E value \in Texts, c \in 0..MaxText : c <= Len(value) /\ handleMessageChange(value, c)
  \/ \E c \in 0..Len(newMessage) : onSelect(c)
  \/ \E composing \in BOOLEAN : onComposition(composing)
  \/ \E handle \in mentionSuggestions :
       Len(newMessage) <= MaxText /\ handleSelectMention(handle)
  \/ Len(messages) < MaxSent /\ handleSendMessage
  \/ Len(messages) < MaxSent /\ onKeyDown

\* degraded mode: RoomPage mounted in one room, its message form in use
NextPage == (\E ts \in Times : Mount(ts)) \/ FormEvents

SpecPage == InitDegraded /\ [][NextPage]_vars

\* degraded mode: RoomPage entered, re-entered for other rooms and left
NextNav ==
  \/ \E allow \in BOOLEAN, ts \in Times : Open(allow, ts)
  \/ \E r \in Rooms, allow \in BOOLEAN, ts \in Times : EnterRoom(r, allow, ts)
  \/ \E allow \in BOOLEAN : Relocate(allow)
  \/ Detach
  \/ LocalMutations

SpecNav == InitDegraded /\ [][NextNav]_vars

\* ================================================================= claims
Ids(coll) == [k \in 1..Len(coll) |-> coll[k].id]

HasId(coll, id) == \E k \in 1..Len(coll) : coll[k].id = id

IsPrefix(s, t) == Len(s) <= Len(t) /\ SubSeq(t, 1, Len(s)) = s

\* the step is the INSERT callback of the channel of table t of activation i
IsFeedStep(i, t) ==
  /\ lastOp'.op = "feed" /\ lastOp'.arg = t /\ lastOp'.act = i
  /\ i <= Len(acts) /\ acts[i].feed[t] # <<>>

\* the step is fetchInitialData of activation i resuming after the query of
\* table t
IsHydrateStep(i, t) ==
  /\ lastOp'.op = "hydrate" /\ lastOp'.arg = t /\ lastOp'.act = i
  /\ i <= Len(acts) /\ acts[i].q = t

Current == Len(acts)

\* C1: a feed event whose id is already in its collection leaves the three
\* collections unchanged (same length, same order).
C1_MergeIdempotent ==
  [][\A i \in 1..Len(acts), t \in TableSet :
       (IsFeedStep(i, t) /\ HasId(Coll(t), Head(acts[i].feed[t]).id))
         => collections' = collections]_vars

\* C1 witness: a feed event for a message that hydration had already stored
\* has been delivered.
C1_Witness ==
  /\ lastOp.op = "feed" /\ lastOp.arg = "messages" /\ ~lastOp.ok
  /\ Len(messages) >= 1

\* C2 (as claimed): whatever the hook exposes for the active room belongs to
\* that room.
C2_RoomIsolation ==
  mounted =>
    /\ \A k \in 1..Len(messages) : messages[k].room_id = roomId
    /\ \A k \in 1..Len(reactions) : reactions[k].room_id = roomId
    /\ \A k \in 1..Len(messageReactions) : messageReactions[k].room_id = roomId

\* C3 (as claimed): no two entries of the messages collection share an id.
C3_UniqueMessageIds ==
  \A j, k \in 1..Len(messages) : j # k => messages[j].id # messages[k].id

\* C4 (as claimed): while one activation stays current, every collection only
\* grows at its end (the ids it held stay, in the same order, as a prefix).
C4_AppendOnly ==
  [][(mounted /\ mounted' /\ acts # <<>> /\ Len(acts') = Len(acts))
       => /\ IsPrefix(Ids(messages), Ids(messages'))
          /\ IsPrefix(Ids(reactions), Ids(reactions'))
          /\ IsPrefix(Ids(messageReactions), Ids(messageReactions'))]_vars

\* C5: in useChatRoom.ts, a hydration response of an activation that is no
\* longer the current one, or that resolves after the consumer detached,
\* changes none of the three collections.
C5_Cancellation ==
  [][\A i \in 1..Len(acts), t \in TableSet :
       (rev = "useChatRoom.ts" /\ IsHydrateStep(i, t) /\ (i < Current \/ ~mounted))
         => collections' = collections]_vars

\* C5 witness: a successful response of the first activation has resumed
\* after the room changed, and the row it carried is not displayed.
C5_Witness ==
  /\ rev = "useChatRoom.ts" /\ mounted /\ Len(acts) >= 2
  /\ lastOp.op = "hydrate" /\ lastOp.arg = "messages" /\ lastOp.act = 1 /\ lastOp.ok
  /\ \E k \in 1..Len(db["messages"]) : db["messages"][k].room_id = acts[1].room
  /\ messages = <<>>

\* C6 (as claimed): right after a sendMessage whose insert failed, the message
\* is in the messages collection.
C6_FailedSendRetained ==
  (lastOp.op = "sendMessage" /\ ~lastOp.ok)
    => \E k \in 1..Len(messages) :
         messages[k].text = lastOp.arg /\ messages[k].user_id = LocalHandle

\* C7: in degraded mode sendMessage(t) appends exactly one entry, with text t
\* and isSender true, at the end of messages, and calls no insert.
C7_OptimisticVisibility ==
  [][(lastOp'.op = "sendMessage" /\ ~isSupabaseConfigured)
       => /\ Len(messages') = Len(messages) + 1
          /\ SubSeq(messages', 1, Len(messages)) = messages
          /\ messages'[Len(messages')].text = lastOp'.arg
          /\ messages'[Len(messages')].isSender = TRUE
          /\ lastOp'.inserts = 0
          /\ db' = db]_vars

\* C7 witness: a degraded-mode sendMessage has run.
C7_Witness ==
  /\ ~isSupabaseConfigured /\ lastOp.op = "sendMessage"
  /\ Len(messages) >= 1 /\ messages[Len(messages)].text = "hello"

NextOf(t) ==
  CASE t = "messages" -> "reactions"
    [] t = "reactions" -> "message_reactions"
    [] t = "message_reactions" -> "done"

\* C8: a failing hydration query changes no collection and does not stop
\* fetchInitialData (the next query is issued); a successful one of the
\* current activation stores exactly the rows returned, leaving the other two
\* collections alone; and the current activation's three channels are open
\* whatever the queries returned.
C8_PartialHydration ==
  [][/\ \A i \in 1..Len(acts), t \in TableSet :
          IsHydrateStep(i, t)
            => /\ acts'[i].q = NextOf(t)
               /\ ~lastOp'.ok => collections' = collections
               /\ (lastOp'.ok /\ i = Current /\ mounted)
                    => /\ Ids(Coll(t))' = Ids(acts[i].resp.data)
                       /\ \A u \in TableSet \ {t} : Coll(u)' = Coll(u)
     /\ (mounted' /\ acts' # <<>>)
          => \A t \in TableSet : acts'[Len(acts')].subs[t] = "live"]_vars

\* C8 witness: the reactions query of the current activation has just failed,
\* the messages collection is populated and the three channels are open.
C8_Witness ==
  /\ mounted /\ acts # <<>>
  /\ lastOp.op = "hydrate" /\ lastOp.arg = "reactions" /\ ~lastOp.ok
  /\ lastOp.act = Current
  /\ acts[Current].q = "message_reactions"
  /\ Len(messages) >= 1 /\ messages[1].room_id = roomId
  /\ \A t \in TableSet : acts[Current].subs[t] = "live"

\* C9: at most one live subscription for each table and room.
C9_OneSubscription ==
  \A t \in TableSet, r \in Rooms :
    Cardinality({i \in 1..Len(acts) : acts[i].subs[t] = "live" /\ acts[i].room = r}) <= 1

\* C9 witness: a room is active for the second time, its first channels
\* released.
C9_Witness ==
  /\ mounted /\ Len(acts) = 3 /\ acts[1].room = acts[3].room
  /\ \A t \in TableSet : acts[3].subs[t] = "live" /\ acts[1].subs[t] = "removed"

\* C10: removeChannel has been called exactly once for every channel of an
\* activation that was left, and not at all for those of the current one.
C10_ReleasedOnce ==
  \A i \in 1..Len(acts), t \in TableSet :
    /\ acts[i].subs[t] # "none"
    /\ acts[i].removeCalls[t] = IF i < Current \/ ~mounted THEN 1 ELSE 0

\* C10 witness: the consumer detached after a room switch.
C10_Witness ==
  /\ ~mounted /\ Len(acts) >= 2
  /\ \A i \in 1..Len(acts), t \in TableSet : acts[i].removeCalls[t] = 1

\* C11: in connected mode every message of the collection (all of them came
\* in by hydration or by the messages feed) has isSender true if and only if
\* its user_id is the local handle.
C11_OwnershipTagging ==
  \A k \in 1..Len(messages) :
    messages[k].isSender = (messages[k].user_id = LocalHandle)

\* C11 witness: hydration stored a message of the local handle, flagged, and
\* the feed then appended one of another participant, not flagged.
C11_Witness ==
  /\ lastOp.op = "feed" /\ lastOp.arg = "messages" /\ lastOp.ok
  /\ acts[Current].q # "messages"
  /\ Len(messages) = 2
  /\ messages[1].user_id = LocalHandle /\ messages[1].isSender
  /\ "userId" \in DOMAIN messages[1]
  /\ messages[2].user_id = RemoteHandle /\ ~messages[2].isSender

\* the row of table t the transport stores under id
StoredUnder(t, id) == CHOOSE r \in {db[t][k] : k \in 1..Len(db[t])} : r.id = id

\* C12: in connected mode every entry of the message reactions collection
\* (hydrated or from the feed) carries a type: the type of the stored row when
\* that row has one, 'like' when it has none.
C12_DefaultType ==
  \A k \in 1..Len(messageReactions) :
    LET e == messageReactions[k]
        r == StoredUnder("message_reactions", e.id)
    IN /\ "type" \in DOMAIN e
       /\ e.type = IF "type" \in DOMAIN r THEN r.type ELSE "like"

\* C12 witness: hydration stored a row without type as 'like' and the feed
\* then appended a row of type 'idea'.
C12_Witness ==
  /\ lastOp.op = "feed" /\ lastOp.arg = "message_reactions" /\ lastOp.ok
  /\ acts[Current].q = "done"
  /\ Len(messageReactions) = 2
  /\ "type" \notin DOMAIN StoredUnder("message_reactions", messageReactions[1].id)
  /\ messageReactions[1].type = "like"
  /\ messageReactions[2].type = "idea"

\* C13 (as claimed): no two entries of the room reactions collection share an
\* id, and no two entries of the message reactions collection share an id.
C13_UniqueReactionIds ==
  /\ \A j, k \in 1..Len(reactions) : j # k => reactions[j].id # reactions[k].id
  /\ \A j, k \in 1..Len(messageReactions) :
       j # k => messageReactions[j].id # messageReactions[k].id

\* C14 (as claimed): right after the hydration query of a table has failed
\* for the current activation, the collection of that table holds nothing
\* but what the feed of the active room delivered: in particular no entry of
\* another room.
C14_EmptyUntilFeed ==
  (mounted /\ lastOp.op = "hydrate" /\ ~lastOp.ok /\ lastOp.act = Current)
    => \A k \in 1..Len(Coll(lastOp.arg)) : Coll(lastOp.arg)[k].room_id = roomId

\* C15 (as claimed): in the revision with the demo branch, right after an
\* activation in degraded mode the messages collection is exactly the
\* synthetic system message of the active room, the two reaction collections
\* hold no entry of another room, and no channel is subscribed.
C15_DegradedSeed ==
  (rev = "part_000" /\ ~isSupabaseConfigured /\ mounted /\ lastOp.op = "effect")
    => /\ messages = <<SystemMessage(roomId, now)>>
       /\ \A k \in 1..Len(reactions) : reactions[k].room_id = roomId
       /\ \A k \in 1..Len(messageReactions) : messageReactions[k].room_id = roomId
       /\ \A i \in 1..Len(acts), t \in TableSet : acts[i].subs[t] # "live"

EntryPoints == {"sendMessage", "addReaction", "addMessageReaction"}

\* C16: a call of sendMessage, addReaction or addMessageReaction in connected
\* mode issues exactly one insert (none in degraded mode, never more than
\* one); when it succeeds exactly one row is stored, when it fails none is
\* stored and the call is over (nothing is submitted again).
C16_NoRetry ==
  [][lastOp'.op \in EntryPoints
       => /\ lastOp'.inserts <= 1
          /\ isSupabaseConfigured
               => /\ lastOp'.inserts = 1
                  /\ Total' = Total + (IF lastOp'.ok THEN 1 ELSE 0)]_vars

\* C16 witness: a connected-mode addReaction has just failed after one
\* insert, nothing stored.
C16_Witness ==
  /\ isSupabaseConfigured
  /\ lastOp.op = "addReaction" /\ ~lastOp.ok /\ lastOp.inserts = 1
  /\ Total = 0

\* the message with this id is not displayed yet and is waiting in the
\* messages feed of the current activation
InFlightMessage(id) ==
  /\ ~HasId(messages, id)
  /\ \E j \in 1..Len(acts[Current].feed["messages"]) :
       acts[Current].feed["messages"][j].id = id

\* C17 (as claimed): a message reaction accepted into the collection before
\* its message is kept while that message is on its way in the feed of the
\* same activation, so that it is among the reactions of the message once the
\* message arrives.
C17_ReferentialLeniency ==
  [][(mounted /\ mounted' /\ acts # <<>> /\ Len(acts') = Len(acts))
       => \A k \in 1..Len(messageReactions) :
            InFlightMessage(messageReactions[k].message_id)
              => HasId(messageReactions', messageReactions[k].id)]_vars

\* the position of the row with this id in table t, in the order of insertion
\* (the order in which the channel of its room delivers the events)
Arrival(t, id) == CHOOSE k \in 1..Len(db[t]) : db[t][k].id = id

C19_PresentationOrder ==
  rev = "useChatRoom.ts" =>
    \A j, k \in 1..Len(messages) :
      j < k => messages[j].timestamp <= messages[k].timestamp

\* C19 witness: the feed has appended a later message to an earlier one
\* while the response of the messages query of the activation is still on
\* its way.
C19_Witness ==
  /\ rev = "useChatRoom.ts" /\ mounted /\ acts # <<>>
  /\ acts[Current].q = "messages" /\ acts[Current].resp.st = "data"
  /\ lastOp.op = "feed" /\ lastOp.arg = "messages" /\ lastOp.ok
  /\ Len(messages) = 2
  /\ messages[1].timestamp < messages[2].timestamp

\* C20: a displayed message is reported as addressed to a participant if and
\* only if that participant's handle is an element of the message's mentions
\* list; a message without mentions is addressed to nobody.
C20_MentionDetection ==
  \A k \in 1..Len(messages), h \in ViewerHandles :
    LET m == messages[k]
        listed == IF "mentions" \in DOMAIN m
                  THEN {m.mentions[j] : j \in 1..Len(m.mentions)} ELSE {}
    IN isMentioned(m, h) <=> h \in listed

\* C20 witness: the system message (no mentions field), a message with an
\* empty mentions list and one with mentions [H2] are displayed; the last is
\* addressed to H2 and not to H3, the others to nobody.
C20_Witness ==
  /\ Len(messages) = 3
  /\ "mentions" \notin DOMAIN messages[1]
  /\ messages[2].mentions = <<>>
  /\ messages[3].mentions = <<"H2">>
  /\ isMentioned(messages[3], "H2") /\ ~isMentioned(messages[3], "H3")
  /\ \A h \in ViewerHandles : ~isMentioned(messages[1], h) /\ ~isMentioned(messages[2], h)

Listed(s) == {s[k] : k \in 1..Len(s)}

\* C21: the handles computed from the messages collection contain the author
\* of every message, the host name of every host message and every mentioned
\* handle, contain the local handle whatever the collection holds, and hold
\* no handle twice.
C21_ParticipantHandles ==
  \A hn \in HostNames :
    LET P == participantHandles(messages, LocalHandle, hn)
    IN /\ \A k \in 1..Len(messages) :
            LET m == messages[k]
            IN /\ m.user_id \in Listed(P)
               /\ ("is_host" \in DOMAIN m /\ m.is_host /\ m.host_name # Null)
                    => m.host_name \in Listed(P)
               /\ "mentions" \in DOMAIN m => Listed(m.mentions) \subseteq Listed(P)
       /\ LocalHandle \in Listed(P)
       /\ \A i, j \in 1..Len(P) : i # j => P[i] # P[j]

\* C21 witness: the system message and a host message of the local
\* participant that mentions H2 are displayed; the handles are the system
\* author, the host name, the local handle and H2, each once.
C21_Witness ==
  /\ Len(messages) = 2
  /\ messages[1].user_id = SystemUser
  /\ messages[2].is_host /\ messages[2].mentions = <<"H2">>
  /\ participantHandles(messages, LocalHandle, "") = <<SystemUser, "Host", LocalHandle, "H2">>
  /\ participantHandles(<<>>, LocalHandle, "") = <<LocalHandle>>

\* the calls made so far are the beginning of the chain
\* select().eq('room_id', R).order('timestamp', { ascending: true })
QueryChain ==
  /\ chain.recv # "none"
  /\ chain.calls # <<>>
  /\ IsPrefix(chain.calls, <<"select", "eq", "order">>)

\* C22 (as claimed): the chain from(table).select().eq('room_id', R)
\* .order('timestamp', ascending) on the mock client goes through and yields,
\* with a null error, exactly the rows of the table whose room_id is R, each
\* once, by non-decreasing timestamp.
C22_MockQuery ==
  QueryChain =>
    /\ chain.recv # "thrown"
    /\ chain.calls = <<"select", "eq", "order">> =>
         /\ chain.res.st = "fulfilled" /\ chain.res.error = Null
         /\ chain.res.data =
              OrderByTimestamp(FilterSeq(memoryStore[chain.table], chain.filters[1].value))

\* the step is a call of insert on a builder of the mock client
IsInsertStep ==
  /\ chain.recv = "builder" /\ chain'.recv = "promise"
  /\ chain'.calls = Append(chain.calls, "insert")

\* C23 (as claimed): an insert into the mock client appends the rows, in the
\* order given, at the end of its table and leaves the rows already stored
\* and the other tables as they were; a row keeps the id and the timestamp it
\* supplies and gets a generated id and the current time otherwise; and the
\* call returns these rows with a null error.
C23_MockInsert ==
  [][IsInsertStep =>
       LET t == chain.table
           rows == chain'.arg
           before == memoryStore[t]
           after == memoryStore'[t]
       IN /\ Len(after) = Len(before) + Len(rows)
          /\ SubSeq(after, 1, Len(before)) = before
          /\ \A u \in TableSet \ {t} : memoryStore'[u] = memoryStore[u]
          /\ \A k \in 1..Len(rows) :
               LET r == rows[k]
                   e == after[Len(before) + k]
               IN /\ \A f \in DOMAIN r : e[f] = r[f]
                  /\ DOMAIN e = DOMAIN r \cup {"id", "timestamp"}
                  /\ "id" \notin DOMAIN r =>
                       /\ e.id[1] = "uuid"
                       /\ \A j \in 1..Len(after) : j # Len(before) + k => after[j].id # e.id
                  /\ "timestamp" \notin DOMAIN r => e.timestamp = now'
          /\ chain'.res.st = "fulfilled"
          /\ chain'.res.error = Null
          /\ chain'.res.data = SubSeq(after, Len(before) + 1, Len(after))]_vars

\* C24 (as claimed): with storage available, after every insert that
\* completed, what the storage holds for each table is the table in memory.
C24_PersistedCopy ==
  [][(IsInsertStep /\ storageAvailable /\ chain'.res.st = "fulfilled")
       => \A t \in TableSet : Loaded(localStorage', t) = memoryStore'[t]]_vars

\* C25: in degraded mode no feed event is ever pending or merged, whatever
\* is inserted into the mock client, and the collections change only in
\* fetchInitialData (the seed of the effect) and in the hook's own
\* sendMessage, addReaction and addMessageReaction.
C25_NoOpProducer ==
  [][~isSupabaseConfigured =>
       /\ lastOp'.op # "feed"
       /\ \A i \in 1..Len(acts') : acts'[i].feed = NoFeed
       /\ collections' # collections
            => lastOp'.op \in EntryPoints \cup {"effect", "hydrate"}]_vars

\* C25 witness: in degraded mode, with the channel of the reactions table of
\* the active room subscribed, a row for that room has been inserted into
\* the mock's reactions table, and the collection has not received it.
C25_Witness ==
  /\ ~isSupabaseConfigured /\ mounted /\ acts # <<>>
  /\ acts[Current].subs["reactions"] = "live"
  /\ chain.recv = "promise" /\ chain.calls = <<"insert">> /\ chain.table = "reactions"
  /\ chain.res.st = "fulfilled" /\ chain.res.data[1].room_id = roomId
  /\ reactions = <<>>

\* C26 (as claimed): a call of the mock client's select or insert ends with
\* a {data, error} value; it never throws and its Promise never rejects.
C26_ErrorsAsValues ==
  (chain.recv # "none" /\ chain.calls # <<>>
     /\ chain.calls[Len(chain.calls)] \in {"select", "insert"})
    => /\ chain.recv = "promise"
       /\ chain.res.st = "fulfilled"

C28_OwnMessageVisible ==
  [][ /\ ( /\ isSupabaseConfigured
           /\ lastOp'.op = "sendMessage" /\ lastOp'.ok
           /\ Len(db'.messages) = Len(db.messages) + 1
           /\ acts' = acts )
        => \/ HasId(messages', db'.messages[Len(db'.messages)].id)
           \/ /\ acts[Current].q = "messages"
              /\ acts[Current].resp.st = "none"
      /\ \A k1, k2 \in 1..Len(messages') :
           messages'[k1].id = messages'[k2].id => k1 = k2
    ]_vars

\* C29: the entry the messages feed callback stores for a row equals the
\* entry hydration stores for the same row (same isSender, same userId, same
\* mentions, absent mentions stored as the empty list).
C29_SameNormalization ==
  [][ \A i \in 1..Len(acts) :
        IsFeedStep(i, "messages") /\ Len(messages') = Len(messages) + 1
          => messages'[Len(messages')]
               = HydrateRow("messages", Head(acts[i].feed["messages"]))
    ]_vars

\* C30: in connected mode, while a room is active, the live channels are
\* exactly the three of the current activation, which is for the active
\* room; the channels of every earlier activation are removed; and a feed
\* callback runs only for the current activation, with a row of the active
\* room.
C30_LiveSubscriptions ==
  [][ /\ (isSupabaseConfigured /\ mounted' /\ acts' # <<>>)
        => /\ acts'[Len(acts')].room = roomId'
           /\ \A i \in 1..Len(acts'), t \in TableSet :
                (acts'[i].subs[t] = "live") <=> (i = Len(acts'))
      /\ \A i \in 1..Len(acts), t \in TableSet :
           IsFeedStep(i, t)
             => i = Current /\ Head(acts[i].feed[t]).room_id = roomId
    ]_vars

\* after a switch from one room to another, with a row stored for the room
\* left that is not displayed: the three channels of the new room are live,
\* those of the room left are removed, and a feed event of the new room has
\* just been merged
C30_Witness ==
  /\ isSupabaseConfigured /\ mounted /\ Len(acts) >= 2
  /\ acts[1].room # roomId /\ acts[Current].room = roomId
  /\ \A t \in TableSet : acts[Current].subs[t] = "live" /\ acts[1].subs[t] = "removed"
  /\ lastOp.op = "feed" /\ lastOp.act = Current /\ lastOp.ok
  /\ \E k \in 1..Len(messages) : messages[k].room_id = roomId
  /\ \E k \in 1..Len(db.messages) :
       /\ db.messages[k].room_id = acts[1].room
       /\ ~HasId(messages, db.messages[k].id)

\* C31: a call of sendMessage, addReaction or addMessageReaction whose insert
\* returns an error changes nothing of the engine: the hook stays mounted in
\* its room, the activations keep their channels, pending feed events and
\* pending hydration, the three collections and the stored rows are as
\* before, so that what follows is processed as if the call had not been made.
C31_FailedInsertHarmless ==
  [][(lastOp'.op \in EntryPoints /\ ~lastOp'.ok)
       => /\ mounted' = mounted /\ roomId' = roomId
          /\ acts' = acts
          /\ collections' = collections
          /\ db' = db]_vars

\* a sendMessage has just failed in connected mode while an earlier message
\* is displayed and a feed event is waiting on a live channel of the current
\* activation
C31_Witness ==
  /\ isSupabaseConfigured /\ mounted /\ acts # <<>>
  /\ lastOp.op = "sendMessage" /\ ~lastOp.ok /\ lastOp.inserts = 1
  /\ \A t \in TableSet : acts[Current].subs[t] = "live"
  /\ \E t \in TableSet : acts[Current].feed[t] # <<>>
  /\ Len(messages) >= 1

\* C32 (as claimed): in degraded mode sendMessage, addReaction and
\* addMessageReaction leave the mock client's in-memory tables and the
\* storage as they were (so no later query of the mock client can return the
\* entry), and the entries they wrote for a room do not survive an activation
\* of that room: right after the effect has run for a room, no collection
\* holds an entry written by them for that room.
C32_DegradedWritesLocalOnly ==
  [][~isSupabaseConfigured
       => /\ lastOp'.op \in EntryPoints
               => memoryStore' = memoryStore /\ localStorage' = localStorage
          /\ (lastOp'.op = "effect" /\ mounted')
               => /\ \A k \in 1..Len(messages') :
                       messages'[k].room_id = roomId'
                         => messages'[k].user_id # LocalHandle
                  /\ \A k \in 1..Len(reactions') : reactions'[k].room_id # roomId'
                  /\ \A k \in 1..Len(messageReactions') :
                       messageReactions'[k].room_id # roomId']_vars

\* the record carries the reaction type and the room and nothing else
\* besides id and timestamp
Anonymous(r, type) ==
  /\ DOMAIN r \ {"id", "timestamp"} = {"type", "room_id"}
  /\ r.type = type /\ r.room_id = roomId

\* C33: the record addReaction appends locally (degraded mode) or the
\* transport stores for it (connected mode) is determined, apart from id and
\* timestamp, by the reaction type and the room alone: its fields are type
\* and room_id, and it has no user_id, so it is the same for every handle.
C33_AnonymousReactions ==
  [][lastOp'.op = "addReaction"
       => IF isSupabaseConfigured
          THEN lastOp'.ok
                 => /\ Len(db'.reactions) = Len(db.reactions) + 1
                    /\ Anonymous(db'.reactions[Len(db'.reactions)], lastOp'.arg)
          ELSE /\ Len(reactions') = Len(reactions) + 1
               /\ Anonymous(reactions'[Len(reactions')], lastOp'.arg)]_vars

\* a reaction of the local participant stored by the transport and displayed
\* through the feed, and another just submitted
C33_Witness ==
  /\ isSupabaseConfigured /\ mounted
  /\ lastOp.op = "addReaction" /\ lastOp.ok
  /\ Len(db.reactions) = 2
  /\ Len(reactions) >= 1

\* C34: in degraded mode every call of addMessageReaction appends one entry
\* to the message reactions collection and keeps the entries already there,
\* whether or not the participant has reacted to that message before; the
\* entry has the local handle as user_id, the type of the call and the
\* message id the caller passed. So n calls for one message add n entries.
C34_RepeatedMessageReactions ==
  [][(lastOp'.op = "addMessageReaction" /\ ~isSupabaseConfigured)
       => /\ Len(messageReactions') = Len(messageReactions) + 1
          /\ SubSeq(messageReactions', 1, Len(messageReactions)) = messageReactions
          /\ LET e == messageReactions'[Len(messageReactions')]
             IN /\ e.user_id = LocalHandle
                /\ e.type = lastOp'.arg
                /\ e.message_id \in MessageIds]_vars

\* two reactions of the local participant to one displayed message, of the
\* same type
C34_Witness ==
  /\ ~isSupabaseConfigured /\ lastOp.op = "addMessageReaction"
  /\ Len(messageReactions) = 2
  /\ messageReactions[1].message_id = messageReactions[2].message_id
  /\ messageReactions[1].user_id = LocalHandle
  /\ messageReactions[2].user_id = LocalHandle
  /\ messageReactions[1].type = messageReactions[2].type
  /\ HasId(messages, messageReactions[1].message_id)

\* the step is a call of sendMessage by the message form (degraded mode: the
\* call appends its message)
IsSendStep ==
  /\ lastOp'.op = "sendMessage"
  /\ Len(messages') = Len(messages) + 1

\* C35: whatever the sequence of changes of the text, cursor moves,
\* composition starts and ends, picked suggestions, Enter keys and submits,
\* every call of sendMessage by the room page passes the trimmed text of the
\* textarea, which is not empty, is made while isComposing is false, and
\* leaves the textarea empty.
C35_SendGuard ==
  [][IsSendStep
       => /\ lastOp'.arg = Trim(newMessage)
          /\ lastOp'.arg # <<>>
          /\ ~isComposing
          /\ newMessage' = <<>>]_vars

\* a message has been sent from the form and is displayed; the textarea
\* holds a new text with a composition in progress, which Enter and submit
\* do not send
C35_Witness ==
  /\ lastOp.op = "sendMessage"
  /\ Len(messages) >= 1 /\ messages[Len(messages)].text = <<"@", LocalHandle>>
  /\ isComposing
  /\ newMessage = <<" ", LocalHandle>>

\* '@handle' occurs in the text
Occurs(handle, text) ==
  \E i \in 1..(Len(text) - 1) : text[i] = "@" /\ text[i + 1] = handle

\* C36 (as claimed): every handle in the mentions list the room page passes
\* to sendMessage occurs as '@handle' in the text passed with it, whatever
\* suggestions were picked and however the text was edited before; the list
\* has no duplicates; and the picked mentions are dropped after the send.
C36_MentionsInText ==
  [][IsSendStep
       => LET m == messages'[Len(messages')]
          IN /\ \A k \in 1..Len(m.mentions) : Occurs(m.mentions[k], m.text)
             /\ \A j, k \in 1..Len(m.mentions) :
                  m.mentions[j] = m.mentions[k] => j = k
             /\ selectedMentions' = <<>>]_vars

\* C37 (as claimed): in degraded mode the message count of the dashboard
\* leaves out the synthetic system message: it is the number of displayed
\* messages that are not the system message, i.e. k after an activation and
\* k calls of sendMessage.
C37_DashboardCount ==
  (~isSupabaseConfigured /\ mounted /\ acts # <<>>)
    => totalMessages(messages)
         = Cardinality({k \in 1..Len(messages) : messages[k].user_id # SystemUser})

IsSelectStep ==
  /\ chain.recv \in {"builder", "promise"}
  /\ chain'.calls = Append(chain.calls, "select")

\* C39: a call of select on the mock client, whatever eq filters and order
\* were given before it, leaves every in-memory table as it was, the order of
\* the rows included, and writes nothing to the storage.
C39_QueryReadOnly ==
  [][IsSelectStep
       => /\ memoryStore' = memoryStore
          /\ localStorage' = localStorage]_vars

\* a select with a filter and descending order has returned the two rows of
\* a table in the reverse of the order the table keeps them in
C39_Witness ==
  /\ chain.recv = "promise"
  /\ chain.calls = <<"eq", "order", "select">>
  /\ ~chain.ascending
  /\ Len(memoryStore[chain.table]) = 2
  /\ chain.res.st = "fulfilled"
  /\ chain.res.data = <<memoryStore[chain.table][2], memoryStore[chain.table][1]>>

====
